---- MODULE Spec2Model ----
(***************************************************************************)
(* SRT encoding and decoding of daniel-lennart/Transcriptions.            *)
(*                                                                         *)
(* Two scripts, lesson_pipeline.py and extract_mp3.py, write the segments  *)
(* returned by Whisper as an SRT file (transcribe_audio, format_srt_time); *)
(* lesson_pipeline.py also turns an SRT file into plain text               *)
(* (srt_to_text).                                                          *)
(*                                                                         *)
(* A Python str is a sequence of one-character strings.  A Python float is *)
(* an IEEE-754 double, kept exactly: [ip, fb] is the number                *)
(* ip + 0.fb (fb the binary digits after the point), at most 53            *)
(* significant bits.                                                       *)
(***************************************************************************)
EXTENDS Integers, Sequences, FiniteSets

VARIABLES
    inputExists,  \* os.path.isfile(input_path)
    result,       \* model.transcribe(...): [text, segments]
    lpSrt,        \* f.write calls on lesson_pipeline's transcripts/srt/<name>.srt
    lpTxt,        \* lesson_pipeline's transcripts/txt/<name>.txt
    emSrt,        \* f.write calls on extract_mp3's <name>.srt
    emTxt,        \* extract_mp3's <name>.txt
    srt,          \* content of an SRT file handed to srt_to_text
    txt,          \* the file srt_to_text wrote
    txt2,         \* the file srt_to_text wrote when run on txt
    seconds,      \* argument of format_srt_time
    lpTime,       \* lesson_pipeline.format_srt_time(seconds)
    emTime,       \* extract_mp3.format_srt_time(seconds)
    done          \* the operations that have run

vars == <<inputExists, result, lpSrt, lpTxt, emSrt, emTxt, srt, txt, txt2,
          seconds, lpTime, emTime, done>>

-----------------------------------------------------------------------------
(* Bounds *)

\* Segments in one transcription.
MaxSegs == 2
\* Pieces an SRT file handed to srt_to_text is made of.
MaxPieces == 6
\* Binary digits after the point of the exactly representable times.
MaxFracBits == 3

-----------------------------------------------------------------------------
(* Characters and strings *)

NL == "\n"
DigitChars == <<"0", "1", "2", "3", "4", "5", "6", "7", "8", "9">>
Digits == {DigitChars[i] : i \in 1..10}
\* What str.strip() removes (of the characters that occur here).
Whitespace == {" ", "\n", "\t", "\r"}

DigitVal(c) == CHOOSE d \in 0..9 : DigitChars[d + 1] = c

RECURSIVE Flatten(_)
Flatten(ss) == IF ss = <<>> THEN <<>> ELSE Head(ss) \o Flatten(Tail(ss))

\* str(n) of a Python int
RECURSIVE StrNat(_)
StrNat(n) == IF n < 10 THEN <<DigitChars[n + 1]>>
             ELSE StrNat(n \div 10) \o <<DigitChars[(n % 10) + 1]>>

Str(n) == IF n < 0 THEN <<"-">> \o StrNat(-n) ELSE StrNat(n)

RECURSIVE Zeros(_)
Zeros(k) == IF k <= 0 THEN <<>> ELSE <<"0">> \o Zeros(k - 1)

\* A variant of FormatZeroPad: no filling.
FormatNoPad(n, w) == StrNat(n)

\* f"{n:0w}" of a non-negative int: zero-filled to a minimum width of w
FormatZeroPad(n, w) == Zeros(w - Len(StrNat(n))) \o StrNat(n)

RECURSIVE LStrip(_)
LStrip(s) == IF s # <<>> /\ Head(s) \in Whitespace THEN LStrip(Tail(s)) ELSE s

RECURSIVE RStrip(_)
RStrip(s) == IF s # <<>> /\ s[Len(s)] \in Whitespace
             THEN RStrip(SubSeq(s, 1, Len(s) - 1)) ELSE s

\* str.strip()
Strip(s) == RStrip(LStrip(s))

-----------------------------------------------------------------------------
(* Python floats *)

\* Significant bits of a double.
MantissaBits == 53

RECURSIVE BitsVal(_)
BitsVal(bs) == IF bs = <<>> THEN 0
               ELSE 2 * BitsVal(SubSeq(bs, 1, Len(bs) - 1)) + bs[Len(bs)]

RECURSIVE BitLen(_)
BitLen(n) == IF n = 0 THEN 0 ELSE 1 + BitLen(n \div 2)

RECURSIVE ZeroBits(_)
ZeroBits(k) == IF k <= 0 THEN <<>> ELSE <<0>> \o ZeroBits(k - 1)

HexBits(h) == <<(h \div 8) % 2, (h \div 4) % 2, (h \div 2) % 2, h % 2>>

\* The double float.hex() prints as 0x1.<hex>p<e>: 1.<hex> * 2^e.
FromHex(hex, e) ==
    LET m == <<1>> \o Flatten([i \in 1..Len(hex) |-> HexBits(hex[i])])
    IN  IF e >= 0
        THEN [ip |-> BitsVal(SubSeq(m, 1, e + 1)),
              fb |-> SubSeq(m, e + 2, Len(m))]
        ELSE [ip |-> 0, fb |-> ZeroBits(-e - 1) \o m]

\* An integer plus a short binary fraction: exactly representable.
Dyadic(n, bits) == [ip |-> n, fb |-> bits]

\* bits[i] with the digits past the end read as 0
BitAt(bits, i) == IF i <= Len(bits) THEN bits[i] ELSE 0

\* a < b
FloatLess(a, b) ==
    \/ a.ip < b.ip
    \/ /\ a.ip = b.ip
       /\ \E i \in 1..Len(b.fb) :
            /\ BitAt(a.fb, i) < b.fb[i]
            /\ \A j \in 1..(i - 1) : BitAt(a.fb, j) = BitAt(b.fb, j)

\* 0.bits * k exactly, by long multiplication from the last digit: [q, pf] is
\* q + 0.pf (k < 2^20, so no step overflows).
MulFrac(bits, k) ==
    LET n == Len(bits)
        carry[i \in 0..n] ==
            IF i = n THEN 0 ELSE (bits[i + 1] * k + carry[i + 1]) \div 2
    IN  [q |-> carry[0], pf |-> [i \in 1..n |-> (bits[i] * k + carry[i]) % 2]]

LeadingZeros(bits) ==
    IF \A i \in 1..Len(bits) : bits[i] = 0 THEN Len(bits)
    ELSE (CHOOSE i \in 1..Len(bits) :
            bits[i] = 1 /\ \A j \in 1..(i - 1) : bits[j] = 0) - 1

\* int() of the double nearest to x = q + 0.pf (round to nearest, ties to even):
\* the product keeps MantissaBits significant bits, and the rounding reaches the
\* next integer when every kept digit after the point is 1 and it rounds up.
IntOfRounded(x) ==
    LET keep == MantissaBits - BitLen(x.q)
                + (IF x.q = 0 THEN LeadingZeros(x.pf) ELSE 0)
        sticky == \E i \in (keep + 2)..Len(x.pf) : x.pf[i] = 1
        up == /\ Len(x.pf) > keep
              /\ x.pf[keep + 1] = 1
              /\ (sticky \/ BitAt(x.pf, keep) = 1)
    IN  IF up /\ \A i \in 1..keep : x.pf[i] = 1 THEN x.q + 1 ELSE x.q

\* int((seconds - int(seconds)) * 1000): the subtraction is exact (it leaves the
\* digits after the point), the multiplication rounds to a double.
MsOf(t) == IntOfRounded(MulFrac(t.fb, 1000))

-----------------------------------------------------------------------------
(* format_srt_time, once per script *)

\* lesson_pipeline.py.  seconds // 3600, seconds % 3600 and seconds % 60 are exact
\* on a double below 2^53, and int() drops the digits after the point.
lp_format_srt_time(t) ==
    LET h == t.ip \div 3600
        m == (t.ip % 3600) \div 60
        s == t.ip % 60
        ms == MsOf(t)
    IN  FormatZeroPad(h, 2) \o <<":">> \o FormatZeroPad(m, 2) \o <<":">>
        \o FormatZeroPad(s, 2) \o <<",">> \o FormatZeroPad(ms, 3)

\* A variant of em_format_srt_time: a point before the milliseconds.
em_format_srt_time_point(t) ==
    LET h == t.ip \div 3600
        m == (t.ip % 3600) \div 60
        s == t.ip % 60
        ms == MsOf(t)
    IN  FormatZeroPad(h, 2) \o <<":">> \o FormatZeroPad(m, 2) \o <<":">>
        \o FormatZeroPad(s, 2) \o <<".">> \o FormatZeroPad(ms, 3)

\* extract_mp3.py
em_format_srt_time(t) ==
    LET h == t.ip \div 3600
        m == (t.ip % 3600) \div 60
        s == t.ip % 60
        ms == MsOf(t)
    IN  FormatZeroPad(h, 2) \o <<":">> \o FormatZeroPad(m, 2) \o <<":">>
        \o FormatZeroPad(s, 2) \o <<",">> \o FormatZeroPad(ms, 3)

-----------------------------------------------------------------------------
(* transcribe_audio: the SRT file, once per script *)

Arrow == <<" ", "-", "-", ">", " ">>

\* Variants of lp_WriteSegment: the id written as it is, one newline after the
\* text, and the times put in order.
lp_WriteSegmentRawId(segment) ==
    << Str(segment.id) \o <<NL>>,
       lp_format_srt_time(segment.start) \o Arrow
           \o lp_format_srt_time(segment.end) \o <<NL>>,
       Strip(segment.text) \o <<NL, NL>> >>

lp_WriteSegmentOneNewline(segment) ==
    << Str(segment.id + 1) \o <<NL>>,
       lp_format_srt_time(segment.start) \o Arrow
           \o lp_format_srt_time(segment.end) \o <<NL>>,
       Strip(segment.text) \o <<NL>> >>

lp_WriteSegmentOrdered(segment) ==
    LET first == IF FloatLess(segment.end, segment.start)
                 THEN segment.end ELSE segment.start
        last == IF FloatLess(segment.end, segment.start)
                THEN segment.start ELSE segment.end
    IN  << Str(segment.id + 1) \o <<NL>>,
           lp_format_srt_time(first) \o Arrow \o lp_format_srt_time(last) \o <<NL>>,
           Strip(segment.text) \o <<NL, NL>> >>

\* lesson_pipeline.py: the three f.write calls of one segment
lp_WriteSegment(segment) ==
    << Str(segment.id + 1) \o <<NL>>,
       lp_format_srt_time(segment.start) \o Arrow
           \o lp_format_srt_time(segment.end) \o <<NL>>,
       Strip(segment.text) \o <<NL, NL>> >>

\* lesson_pipeline.py: for segment in result["segments"]
RECURSIVE lp_WriteFrom(_, _)
lp_WriteFrom(segments, k) ==
    IF k > Len(segments) THEN <<>>
    ELSE lp_WriteSegment(segments[k]) \o lp_WriteFrom(segments, k + 1)

lp_WriteSegments(segments) == lp_WriteFrom(segments, 1)

\* extract_mp3.py: the three f.write calls of one segment
em_WriteSegment(segment) ==
    << Str(segment.id + 1) \o <<NL>>,
       em_format_srt_time(segment.start) \o Arrow
           \o em_format_srt_time(segment.end) \o <<NL>>,
       Strip(segment.text) \o <<NL, NL>> >>

\* extract_mp3.py: for segment in result["segments"]
RECURSIVE em_WriteFrom(_, _)
em_WriteFrom(segments, k) ==
    IF k > Len(segments) THEN <<>>
    ELSE em_WriteSegment(segments[k]) \o em_WriteFrom(segments, k + 1)

em_WriteSegments(segments) == em_WriteFrom(segments, 1)

\* What a file holds after the f.write calls `writes`.
FileText(writes) == Flatten(writes)

-----------------------------------------------------------------------------
(* srt_to_text *)

\* \d in the patterns below
D == "\\d"

TimePattern == <<D, D, ":", D, D, ":", D, D, ",", D, D, D>>

\* \n\d{2}:\d{2}:\d{2},\d{3} --> \d{2}:\d{2}:\d{2},\d{3}\n : what follows \d+
HeaderTail == <<NL>> \o TimePattern \o Arrow \o TimePattern \o <<NL>>

MatchesToken(c, tok) == IF tok = D THEN c \in Digits ELSE c = tok

\* The first position from i on that holds no digit (Len(s) + 1 if none).
DigitRunEnd(s, i) ==
    IF \A j \in i..Len(s) : s[j] \in Digits THEN Len(s) + 1
    ELSE CHOOSE j \in i..Len(s) :
            s[j] \notin Digits /\ \A k \in i..(j - 1) : s[k] \in Digits

\* The last position of the match of \d+<HeaderTail> that starts at i, 0 if there
\* is none. \d+ is greedy and \n is no digit, so it takes the whole run of digits.
MatchEnd(s, i) ==
    IF s[i] \notin Digits THEN 0
    ELSE LET j == DigitRunEnd(s, i)
         IN  IF /\ j + Len(HeaderTail) - 1 <= Len(s)
                /\ \A k \in 1..Len(HeaderTail) :
                      MatchesToken(s[j + k - 1], HeaderTail[k])
             THEN j + Len(HeaderTail) - 1
             ELSE 0

Least(S) == CHOOSE i \in S : \A j \in S : i <= j

\* re.sub(<header>, "", s) from position pos on: the leftmost match is dropped and
\* the scan goes on after it.
RECURSIVE RemoveHeadersFrom(_, _)
RemoveHeadersFrom(s, pos) ==
    LET starts == {i \in pos..Len(s) : MatchEnd(s, i) > 0}
    IN  IF starts = {} THEN SubSeq(s, pos, Len(s))
        ELSE SubSeq(s, pos, Least(starts) - 1)
             \o RemoveHeadersFrom(s, MatchEnd(s, Least(starts)) + 1)

RemoveHeaders(s) == RemoveHeadersFrom(s, 1)

\* The last position of the run of newlines that starts at i.
NewlineRunEnd(s, i) ==
    IF \A j \in i..Len(s) : s[j] = NL THEN Len(s)
    ELSE (CHOOSE j \in i..Len(s) :
            s[j] # NL /\ \A k \in i..(j - 1) : s[k] = NL) - 1

\* re.sub(r"\n{2,}", "\n", s) from position pos on
RECURSIVE CollapseFrom(_, _)
CollapseFrom(s, pos) ==
    LET starts == {i \in pos..(Len(s) - 1) : s[i] = NL /\ s[i + 1] = NL}
    IN  IF starts = {} THEN SubSeq(s, pos, Len(s))
        ELSE SubSeq(s, pos, Least(starts) - 1) \o <<NL>>
             \o CollapseFrom(s, NewlineRunEnd(s, Least(starts)) + 1)

\* Variants of CollapseNewlines: nothing collapsed, and newlines collapsed two by
\* two (\n{2} for \n{2,}).
CollapseNone(s) == s

RECURSIVE CollapsePairsFrom(_, _)
CollapsePairsFrom(s, pos) ==
    LET starts == {i \in pos..(Len(s) - 1) : s[i] = NL /\ s[i + 1] = NL}
    IN  IF starts = {} THEN SubSeq(s, pos, Len(s))
        ELSE SubSeq(s, pos, Least(starts) - 1) \o <<NL>>
             \o CollapsePairsFrom(s, Least(starts) + 2)

CollapsePairs(s) == CollapsePairsFrom(s, 1)

CollapseNewlines(s) == CollapseFrom(s, 1)

\* A variant of srt_to_text: the result is not stripped.
srt_to_text_no_strip(srt_content) == CollapseNewlines(RemoveHeaders(srt_content))

\* What srt_to_text writes to output_txt_path for a file holding srt_content.
srt_to_text(srt_content) ==
    Strip(CollapseNewlines(RemoveHeaders(srt_content)))

-----------------------------------------------------------------------------
(* Inputs *)

\* The canonical binary fractions of at most MaxFracBits digits.
ShortFractions ==
    {<<>>} \cup UNION {{b \in [1..n -> {0, 1}] : b[n] = 1} : n \in 1..MaxFracBits}

\* Whole seconds around the minute, the hour and the hundred hours.
WholeSeconds == {0, 1, 59, 60, 3599, 3600, 359999, 360000}

\* Times that are exactly representable.
DyadicTimes == {Dyadic(n, b) : n \in WholeSeconds, b \in ShortFractions}

\* The doubles nearest to decimal times, as float.hex() prints them.
T_3661_999 == FromHex(<<12, 9, 11, 15, 15, 7, 12, 14, 13, 9, 1, 6, 8>>, 11)
T_1_9995 == FromHex(<<15, 15, 13, 15, 3, 11, 6, 4, 5, 10, 1, 12, 11>>, 0)
T_0_3 == FromHex(<<3, 3, 3, 3, 3, 3, 3, 3, 3, 3, 3, 3, 3>>, -2)
T_2_3 == FromHex(<<2, 6, 6, 6, 6, 6, 6, 6, 6, 6, 6, 6, 6>>, 1)
T_0_999 == FromHex(<<15, 15, 7, 12, 14, 13, 9, 1, 6, 8, 7, 2, 11>>, -1)
T_1_001 == FromHex(<<0, 0, 4, 1, 8, 9, 3, 7, 4, 11, 12, 6, 10>>, 0)
T_59_999 == FromHex(<<13, 15, 15, 13, 15, 3, 11, 6, 4, 5, 10, 1, 13>>, 5)
T_4_56 == FromHex(<<2, 3, 13, 7, 0, 10, 3, 13, 7, 0, 10, 3, 13>>, 2)
T_0_02 == FromHex(<<4, 7, 10, 14, 1, 4, 7, 10, 14, 1, 4, 7, 11>>, -6)
T_359999_999 == FromHex(<<5, 15, 8, 15, 15, 15, 14, 15, 9, 13, 11, 2, 3>>, 18)

DecimalTimes == {T_3661_999, T_1_9995, T_0_3, T_2_3, T_0_999, T_1_001,
                 T_59_999, T_4_56, T_0_02, T_359999_999}

Times == DyadicTimes \cup DecimalTimes

T_0 == Dyadic(0, <<>>)
T_1_5 == Dyadic(1, <<1>>)
T_100h == Dyadic(360000, <<1>>)

\* (start, end) of a segment: in order, backward, and past a hundred hours.
Timings == {<<T_0, T_1_5>>, <<T_1_5, T_0>>, <<T_0, T_100h>>}

\* segment["id"]: Whisper counts from 0; other values stand for any other source.
Ids == {-2, 0, 1}

TimingLine == <<"0", "0", ":", "0", "0", ":", "0", "0", ",", "0", "0", "0">>
                  \o Arrow
                  \o <<"0", "0", ":", "0", "0", ":", "0", "1", ",", "5", "0", "0">>

\* segment["text"]: two lines after a space, only a space, two lines around an
\* empty line, and a text that reads like an index line and a timing line.
Texts == { <<" ", "a", NL, "b">>, <<" ">>, <<"a", NL, NL, "a">>,
           <<"1", NL>> \o TimingLine }

Segments == {[id |-> i, start |-> t[1], end |-> t[2], text |-> x] :
                i \in Ids, t \in Timings, x \in Texts}

SegmentLists == UNION {[1..n -> Segments] : n \in 0..MaxSegs}

\* What an SRT file handed to srt_to_text is made of.
Pieces == { <<"1">>, <<NL>>, TimingLine, <<"a">>, <<" ">> }

SrtContents == {Flatten(p) : p \in UNION {[1..n -> Pieces] : n \in 0..MaxPieces}}

NoResult == [text |-> <<>>, segments |-> <<>>]

-----------------------------------------------------------------------------
(* The state machine *)

Unwritten ==
    /\ lpSrt = <<>> /\ lpTxt = <<>>
    /\ emSrt = <<>> /\ emTxt = <<>>
    /\ txt = <<>> /\ txt2 = <<>>
    /\ lpTime = <<>> /\ emTime = <<>>
    /\ done = {}

\* A call of format_srt_time is about to be made.
InitFmt ==
    /\ seconds \in Times
    /\ inputExists = FALSE
    /\ result = NoResult
    /\ srt = <<>>
    /\ Unwritten

\* Whisper is about to transcribe input_path (result["text"] is the segments' text).
InitEnc ==
    /\ inputExists \in BOOLEAN
    /\ \E segments \in SegmentLists :
          result = [text |-> Flatten([k \in 1..Len(segments) |-> segments[k].text]),
                    segments |-> segments]
    /\ seconds = T_0
    /\ srt = <<>>
    /\ Unwritten

\* An SRT file is about to be cleaned and converted to text.
InitDec ==
    /\ inputExists = FALSE
    /\ result = NoResult
    /\ seconds = T_0
    /\ srt = <<>>
    /\ Unwritten

\* lesson_pipeline.format_srt_time(seconds)
FormatLP ==
    /\ "format_lp" \notin done
    /\ lpTime' = lp_format_srt_time(seconds)
    /\ done' = done \cup {"format_lp"}
    /\ UNCHANGED <<inputExists, result, lpSrt, lpTxt, emSrt, emTxt, srt, txt, txt2,
                   seconds, emTime>>

\* extract_mp3.format_srt_time(seconds)
FormatEM ==
    /\ "format_em" \notin done
    /\ emTime' = em_format_srt_time(seconds)
    /\ done' = done \cup {"format_em"}
    /\ UNCHANGED <<inputExists, result, lpSrt, lpTxt, emSrt, emTxt, srt, txt, txt2,
                   seconds, lpTime>>

\* lesson_pipeline.transcribe_audio(input_path): returns at once when input_path is
\* no file; otherwise writes the transcript and the SRT file (which srt_to_text
\* may read).
TranscribeLP ==
    /\ inputExists
    /\ "transcribe_lp" \notin done
    /\ lpTxt' = result.text
    /\ lpSrt' = lp_WriteSegments(result.segments)
    /\ srt' = FileText(lp_WriteSegments(result.segments))
    /\ done' = done \cup {"transcribe_lp"}
    /\ UNCHANGED <<inputExists, result, emSrt, emTxt, txt, txt2, seconds,
                   lpTime, emTime>>

\* extract_mp3.transcribe_audio(input_path)
TranscribeEM ==
    /\ inputExists
    /\ "transcribe_em" \notin done
    /\ emTxt' = result.text
    /\ emSrt' = em_WriteSegments(result.segments)
    /\ done' = done \cup {"transcribe_em"}
    /\ UNCHANGED <<inputExists, result, lpSrt, lpTxt, srt, txt, txt2, seconds,
                   lpTime, emTime>>

\* clean_srt_with_openai(srt_path, output_srt_path): the response of the language
\* model, which may be any text, is written to output_srt_path. It opens a run
\* clean, convert, convert again, so it comes first.
CleanSrt ==
    /\ done = {}
    /\ \E response \in SrtContents : srt' = response
    /\ done' = {"clean_srt"}
    /\ UNCHANGED <<inputExists, result, lpSrt, lpTxt, emSrt, emTxt, txt, txt2,
                   seconds, lpTime, emTime>>

\* srt_to_text(srt_path, output_txt_path) on the SRT file written before
SrtToText ==
    /\ ("transcribe_lp" \in done \/ "clean_srt" \in done)
    /\ "srt_to_text" \notin done
    /\ txt' = srt_to_text(srt)
    /\ done' = done \cup {"srt_to_text"}
    /\ UNCHANGED <<inputExists, result, lpSrt, lpTxt, emSrt, emTxt, srt, txt2,
                   seconds, lpTime, emTime>>

\* srt_to_text(output_txt_path, ...) on the text file it wrote
SrtToTextAgain ==
    /\ "srt_to_text" \in done
    /\ "srt_to_text_again" \notin done
    /\ txt2' = srt_to_text(txt)
    /\ done' = done \cup {"srt_to_text_again"}
    /\ UNCHANGED <<inputExists, result, lpSrt, lpTxt, emSrt, emTxt, srt, txt,
                   seconds, lpTime, emTime>>

NextFmt == FormatLP \/ FormatEM

NextEnc == TranscribeLP \/ TranscribeEM \/ SrtToText

NextDec == CleanSrt \/ SrtToText \/ SrtToTextAgain

\* One run is checked at a time: a call of each format_srt_time on one time, a
\* transcription by each script followed by srt_to_text, or an SRT file cleaned and
\* converted to text twice.

\* Calls of format_srt_time.
SpecFmt == InitFmt /\ [][NextFmt]_vars

\* Transcriptions, and the conversion of their SRT file to text.
SpecEnc == InitEnc /\ [][NextEnc]_vars

\* Conversions of an arbitrary SRT file to text.
SpecDec == InitDec /\ [][NextDec]_vars

-----------------------------------------------------------------------------
(* Reading the output *)

Segs == result.segments

RECURSIVE Num(_)
Num(ds) == IF ds = <<>> THEN 0
           ELSE 10 * Num(SubSeq(ds, 1, Len(ds) - 1)) + DigitVal(ds[Len(ds)])

AllDigits(ds) == \A i \in 1..Len(ds) : ds[i] \in Digits

\* s reads <digits>:DD:DD,DDD
IsTimeText(s) ==
    LET n == Len(s)
    IN  /\ n >= 11
        /\ AllDigits(SubSeq(s, 1, n - 10))
        /\ s[n - 9] = ":" /\ AllDigits(SubSeq(s, n - 8, n - 7))
        /\ s[n - 6] = ":" /\ AllDigits(SubSeq(s, n - 5, n - 4))
        /\ s[n - 3] = "," /\ AllDigits(SubSeq(s, n - 2, n))

\* The fields of a text that reads <digits>:DD:DD,DDD
FieldsOf(s) ==
    LET n == Len(s)
    IN  [h |-> Num(SubSeq(s, 1, n - 10)), m |-> Num(SubSeq(s, n - 8, n - 7)),
         s |-> Num(SubSeq(s, n - 5, n - 4)), ms |-> Num(SubSeq(s, n - 2, n))]

\* s is exactly HH:MM:SS,mmm with minutes and seconds below 60
IsSrtTime(s) ==
    /\ Len(s) = 12
    /\ IsTimeText(s)
    /\ FieldsOf(s).m <= 59 /\ FieldsOf(s).s <= 59 /\ FieldsOf(s).ms <= 999

\* Where a block of lines starts: a line that is not empty, at the start of the
\* text or after an empty line.
BlockStarts(s) ==
    {i \in 1..Len(s) :
        /\ s[i] # NL
        /\ \/ i = 1
           \/ s[i - 1] = NL /\ (i = 2 \/ s[i - 2] = NL)}

\* No block is more than one empty line after the block before it.
OneBlankLineApart(s) == \A i \in BlockStarts(s) : i > 3 => s[i - 3] # NL

HasNewlineRun(s) == \E i \in 1..(Len(s) - 1) : s[i] = NL /\ s[i + 1] = NL

HasHeader(s) == \E i \in 1..Len(s) : MatchEnd(s, i) > 0

\* x is s without the whitespace around it
IsTrimOf(x, s) ==
    /\ x = <<>> \/ (x[1] \notin Whitespace /\ x[Len(x)] \notin Whitespace)
    /\ \E i \in 1..(Len(s) + 1) :
          /\ i + Len(x) - 1 <= Len(s)
          /\ x = SubSeq(s, i, i + Len(x) - 1)
          /\ \A j \in 1..Len(s) :
                (j < i \/ j > i + Len(x) - 1) => s[j] \in Whitespace

RECURSIVE JoinLines(_)
JoinLines(ls) == IF ls = <<>> THEN <<>>
                 ELSE IF Len(ls) = 1 THEN ls[1]
                 ELSE ls[1] \o <<NL>> \o JoinLines(Tail(ls))

TrimmedTexts == [k \in 1..Len(Segs) |-> Strip(Segs[k].text)]

InOrder == \A k \in 1..Len(Segs) : ~FloatLess(Segs[k].end, Segs[k].start)

\* int() of an exact product q + 0.pf
IntOfExact(x) == x.q

\* floor((t - floor(t)) * 1000) of a time whose binary digits are its exact value
ExactMillis(t) == IntOfExact(MulFrac(t.fb, 1000))

-----------------------------------------------------------------------------
(* Claims: format_srt_time (SpecFmt) *)

\* C3, as stated: for every non-negative time, format_srt_time returns exactly
\* HH:MM:SS,mmm, two digits each for hours, minutes (0..59) and seconds (0..59)
\* and three for the milliseconds (0..999).
C3_AlwaysSrtTime == "format_lp" \in done => IsSrtTime(lpTime)

\* C3, amended: the same for every time below 360000 seconds (100 hours); from
\* there on the hours take three digits or more.
C3_SrtTimeBelow100h ==
    "format_lp" \in done =>
        /\ seconds.ip < 360000 => IsSrtTime(lpTime)
        /\ seconds.ip >= 360000 => IsTimeText(lpTime) /\ Len(lpTime) > 12

C3_Witness ==
    /\ "format_lp" \in done
    /\ seconds = T_359999_999
    /\ IsSrtTime(lpTime)
    /\ FieldsOf(lpTime) = [h |-> 99, m |-> 59, s |-> 59, ms |-> 999]

\* C4: format_srt_time truncates and never rounds or carries: the fields satisfy
\* h*3600 + m*60 + s = floor(t) and ms = floor((t - floor(t)) * 1000) (stated on
\* the times that are exactly what they are written as); 3661.999 formats as
\* 01:01:01,999, 1.5 as 00:00:01,500, and 1.9995 gives 999 ms after a seconds
\* field of 01.
C4_Truncates ==
    "format_lp" \in done =>
        /\ IsTimeText(lpTime)
        /\ seconds \in DyadicTimes =>
              LET f == FieldsOf(lpTime)
              IN  /\ f.h * 3600 + f.m * 60 + f.s = seconds.ip
                  /\ f.ms = ExactMillis(seconds)
        /\ seconds = T_3661_999 =>
              lpTime = <<"0", "1", ":", "0", "1", ":", "0", "1", ",", "9", "9", "9">>
        /\ seconds = T_1_5 =>
              lpTime = <<"0", "0", ":", "0", "0", ":", "0", "1", ",", "5", "0", "0">>
        /\ seconds = T_1_9995 =>
              FieldsOf(lpTime).s = 1 /\ FieldsOf(lpTime).ms = 999

-----------------------------------------------------------------------------
(* Claims: transcribe_audio (SpecEnc) *)

\* C1, as stated: the index line of the k-th block written is k, whatever id the
\* segment carries.
C1_IndexIsPosition ==
    /\ "transcribe_lp" \in done =>
          \A k \in 1..Len(Segs) : lpSrt[3 * k - 2] = Str(k) \o <<NL>>
    /\ "transcribe_em" \in done =>
          \A k \in 1..Len(Segs) : emSrt[3 * k - 2] = Str(k) \o <<NL>>

\* C1, amended: the index line of the k-th block written is the id of the k-th
\* segment plus one, so it is k exactly when that id is k - 1.
C1_IndexIsIdPlusOne ==
    /\ "transcribe_lp" \in done =>
          /\ Len(lpSrt) = 3 * Len(Segs)
          /\ \A k \in 1..Len(Segs) :
                /\ lpSrt[3 * k - 2] = Str(Segs[k].id + 1) \o <<NL>>
                /\ lpSrt[3 * k - 2] = Str(k) \o <<NL>> <=> Segs[k].id = k - 1
    /\ "transcribe_em" \in done =>
          /\ Len(emSrt) = 3 * Len(Segs)
          /\ \A k \in 1..Len(Segs) :
                /\ emSrt[3 * k - 2] = Str(Segs[k].id + 1) \o <<NL>>
                /\ emSrt[3 * k - 2] = Str(k) \o <<NL>> <=> Segs[k].id = k - 1

C1_Witness ==
    /\ {"transcribe_lp", "transcribe_em"} \subseteq done
    /\ Len(Segs) = 2
    /\ Segs[1].id = 1 /\ Segs[2].id = 0
    /\ lpSrt[1] = <<"2", NL>> /\ lpSrt[4] = <<"1", NL>>

\* The text of every segment, trimmed, is not empty and holds no empty line.
PlainTexts ==
    \A k \in 1..Len(Segs) :
        TrimmedTexts[k] # <<>> /\ ~HasNewlineRun(TrimmedTexts[k])

\* C2, as stated: for segments with start <= end, one at least, the SRT text splits
\* into exactly len(segments) blocks, each one empty line after the one before,
\* also when a text is empty once trimmed or holds newlines.
C2_OneBlockPerSegment ==
    ("transcribe_lp" \in done /\ Len(Segs) >= 1 /\ InOrder) =>
        /\ Cardinality(BlockStarts(FileText(lpSrt))) = Len(Segs)
        /\ OneBlankLineApart(FileText(lpSrt))

\* C2, amended: the same when the text of every segment, trimmed, is not empty and
\* holds no empty line (it may hold newlines).
C2_OneBlockPerPlainSegment ==
    ("transcribe_lp" \in done /\ Len(Segs) >= 1 /\ InOrder /\ PlainTexts) =>
        /\ Cardinality(BlockStarts(FileText(lpSrt))) = Len(Segs)
        /\ OneBlankLineApart(FileText(lpSrt))

C2_Witness ==
    /\ "transcribe_lp" \in done
    /\ Len(Segs) = 2 /\ InOrder /\ PlainTexts
    /\ \E i \in 1..Len(TrimmedTexts[1]) : TrimmedTexts[1][i] = NL
    /\ Cardinality(BlockStarts(FileText(lpSrt))) = 2

\* The SRT file reads back: index lines of digits, times below 100 hours, and texts
\* that are plain and hold nothing that reads like an index line and a timing line.
ReadsBack ==
    /\ PlainTexts
    /\ \A k \in 1..Len(Segs) :
          /\ Segs[k].id >= -1
          /\ Segs[k].start.ip < 360000 /\ Segs[k].end.ip < 360000
          /\ ~HasHeader(TrimmedTexts[k] \o <<NL>>)

C9_WrittenAsGiven ==
    "transcribe_lp" \in done =>
        /\ Len(lpSrt) = 3 * Len(Segs)
        /\ \A k \in 1..Len(Segs) :
              /\ lpSrt[3 * k - 1] = lp_format_srt_time(Segs[k].start) \o Arrow
                                    \o lp_format_srt_time(Segs[k].end) \o <<NL>>
              /\ lpSrt[3 * k] = TrimmedTexts[k] \o <<NL, NL>>

C9_Witness ==
    /\ "transcribe_lp" \in done
    /\ Len(Segs) = 2
    /\ FloatLess(Segs[1].end, Segs[1].start)
    /\ ~FloatLess(Segs[2].end, Segs[2].start)
    /\ SubSeq(lpSrt[2], 1, 12)
          = <<"0", "0", ":", "0", "0", ":", "0", "1", ",", "5", "0", "0">>

\* The two format_srt_time agree on every time.
FormatsAgree == \A t \in Times : lp_format_srt_time(t) = em_format_srt_time(t)

\* C10: the two scripts write the same SRT text (and transcript) for the same
\* segments, and their format_srt_time return the same text for every time.
C10_SameSrt ==
    /\ FormatsAgree
    /\ {"transcribe_lp", "transcribe_em"} \subseteq done =>
          /\ FileText(lpSrt) = FileText(emSrt)
          /\ lpTxt = emTxt

C10_Witness ==
    /\ {"transcribe_lp", "transcribe_em"} \subseteq done
    /\ Len(Segs) = 2
    /\ FileText(emSrt) # <<>>
    /\ Segs[2].end = T_100h

-----------------------------------------------------------------------------
(* Claims: srt_to_text (SpecDec) *)

\* C6, as stated: on a text with no index line followed by a timing line,
\* srt_to_text only removes the whitespace around it.
C6_OnlyTrims ==
    ("srt_to_text" \in done /\ ~HasHeader(srt)) => IsTrimOf(txt, srt)

\* C6, amended: the same when the text, trimmed, also holds no two newlines in a
\* row.
C6_OnlyTrimsWithoutEmptyLines ==
    ("srt_to_text" \in done /\ ~HasHeader(srt) /\ ~HasNewlineRun(Strip(srt)))
    => IsTrimOf(txt, srt)

C6_Witness ==
    /\ "srt_to_text" \in done
    /\ ~HasHeader(srt) /\ ~HasNewlineRun(Strip(srt))
    /\ \E i \in 1..Len(srt) : srt[i] = ">"
    /\ \E i \in 1..Len(txt) : txt[i] = NL
    /\ Len(txt) < Len(srt)

\* C7, as stated: on a text with no index line followed by a timing line, a second
\* srt_to_text returns what the first one wrote.
C7_SecondPassSame ==
    ("srt_to_text_again" \in done /\ ~HasHeader(srt)) => txt2 = txt

\* C7, amended: the same when the text still holds no index line followed by a
\* timing line once its runs of newlines are collapsed.
C7_SecondPassSameOnCollapsed ==
    ("srt_to_text_again" \in done /\ ~HasHeader(CollapseNewlines(srt)))
    => txt2 = txt

C7_Witness ==
    /\ "srt_to_text_again" \in done
    /\ ~HasHeader(CollapseNewlines(srt))
    /\ HasNewlineRun(Strip(srt))
    /\ txt2 = txt /\ txt # <<>>

\* C8: what srt_to_text writes holds no two newlines in a row and no whitespace at
\* either end.
C8_NoRunNoMargin ==
    "srt_to_text" \in done =>
        /\ ~HasNewlineRun(txt)
        /\ txt # <<>> => (txt[1] \notin Whitespace /\ txt[Len(txt)] \notin Whitespace)

C8_Witness ==
    /\ "srt_to_text" \in done
    /\ HasHeader(srt)
    /\ HasNewlineRun(RemoveHeaders(srt))
    /\ txt # <<>>

====
